---- MODULE Spec2Model ----
(***************************************************************************)
(* Model of package dbfailover: the failover controller DBs (dbs.go), the  *)
(* fleet aggregator makeSelection (selection.go), the role classifier      *)
(* mergeStatus / checkDBStatus (dbstatus) and the error driver behind the  *)
(* handle Master() returns while several masters are detected.             *)
(*                                                                         *)
(* Handles (sql.DB pointers) are opaque references, modelled by names.     *)
(* Durations are natural numbers in an abstract unit.                      *)
(***************************************************************************)
EXTENDS Integers, Sequences, FiniteSets, TLC

\* ---------------------------------------------------------------- bounds
\* Largest probe latency a probe reports (latencies are 0..MaxLatency).
MaxLatency == 2

\* Largest number of checkDBStatus runs in one behaviour: the initial
\* round takes one per server, every tick of a polling loop one more.
MaxProbes == 4

\* Largest number of checkDBStatus results in one behaviour of the lock
\* model: the initial round and the updates run receives.
MaxLockProbes == 3

\* -------------------------------------------------------------- handles
\* The servers a caller may pass to New, in the order of the list it passes.
AllDBs == <<"A", "B">>

\* The servers of the status maps makeSelection is applied to on its own.
SelDBs == <<"A", "B", "C", "D">>

\* The nil handle.
nil == "nil"

\* The handle sql.Open gives for the driver "dbfailover_err_driver".
errConn == "errConn"

Range(s) == {s[i] : i \in 1..Len(s)}

\* The lists of handles NewWithConfig is called with (the empty one included).
DBLists == {SubSeq(AllDBs, 1, n) : n \in 0..Len(AllDBs)}

\* The key sets of the status maps makeSelection is applied to on its own.
SelLists == {SubSeq(SelDBs, 1, n) : n \in 1..Len(SelDBs)}

Latencies == 0..MaxLatency

\* ---------------------------------------------------------------- roles
roleOffline == 0
roleSlave == 1
roleMaster == 2

Roles == {roleOffline, roleSlave, roleMaster}

\* dbStatus values.
dbStatus == [role : Roles, latency : Latencies]

\* ------------------------------------------------------------ classifier
\* Config.MaxReplicationDelay after NewWithConfig filled in the default
\* (5 minutes; delays are counted in minutes).
defaultMaxReplicationDelay == 5

Delays == {0, defaultMaxReplicationDelay, defaultMaxReplicationDelay + 1}

\* What checkReadOnlyStatus returns.
readOnlyStatus ==
    [online : {FALSE}, readOnly : {FALSE}, latency : Latencies]
    \cup [online : {TRUE}, readOnly : BOOLEAN, latency : Latencies]

\* What checkSlaveStatus returns.
slaveStatus ==
    [online : BOOLEAN, configured : {FALSE}, runningIO : {FALSE},
     runningSQL : {FALSE}, delay : {0}, latency : Latencies]
    \cup [online : {TRUE}, configured : {TRUE}, runningIO : BOOLEAN,
          runningSQL : BOOLEAN, delay : Delays, latency : Latencies]

\* What checkWsrepStatus returns.
wsrepStatus ==
    [online : {FALSE}, ready : {FALSE}, latency : Latencies]
    \cup [online : {TRUE}, ready : BOOLEAN, latency : Latencies]

\* Every value of the three report types, whether or not a check returns
\* it: the arguments mergeStatus can be called with.
readOnlyReports == [online : BOOLEAN, readOnly : BOOLEAN, latency : Latencies]

slaveReports ==
    [online : BOOLEAN, configured : BOOLEAN, runningIO : BOOLEAN,
     runningSQL : BOOLEAN, delay : Delays, latency : Latencies]

wsrepReports == [online : BOOLEAN, ready : BOOLEAN, latency : Latencies]

\* Values of maxReplicationDelay: the default, and no delay allowed.
DelayLimits == {0, defaultMaxReplicationDelay}

maxTime(a, b) ==
    LET m0 == 0
        m1 == IF a > m0 THEN a ELSE m0
    IN  IF b > m1 THEN b ELSE m1

\* The switch of mergeStatus taking every writable server whose replication
\* runs for a master.
tableRole_writableIsMaster(ss, rs) ==
    CASE ~rs.online -> roleOffline
      [] rs.online /\ rs.readOnly /\ ~ss.online -> roleSlave
      [] rs.online /\ ~rs.readOnly /\ ~ss.online -> roleMaster
      [] rs.online /\ ss.online /\ rs.readOnly /\ ss.configured
            /\ ss.runningIO /\ ss.runningSQL -> roleSlave
      [] rs.online /\ ss.online /\ rs.readOnly /\ ss.configured
            /\ ss.runningIO /\ ~ss.runningSQL -> roleOffline
      [] rs.online /\ ss.online /\ rs.readOnly /\ ss.configured
            /\ ~ss.runningIO -> roleOffline
      [] rs.online /\ ss.online /\ rs.readOnly /\ ~ss.configured -> roleOffline
      [] rs.online /\ ss.online /\ ~rs.readOnly /\ ss.configured
            /\ ss.runningIO /\ ss.runningSQL -> roleMaster
      [] rs.online /\ ss.online /\ ~rs.readOnly /\ ss.configured
            /\ ss.runningIO /\ ~ss.runningSQL -> roleOffline
      [] rs.online /\ ss.online /\ ~rs.readOnly /\ ss.configured
            /\ ~ss.runningIO -> roleMaster
      [] rs.online /\ ss.online /\ ~rs.readOnly /\ ~ss.configured -> roleMaster

\* The switch of mergeStatus: the first case that matches decides.
tableRole(ss, rs) ==
    CASE ~rs.online -> roleOffline
      [] rs.online /\ rs.readOnly /\ ~ss.online -> roleSlave
      [] rs.online /\ ~rs.readOnly /\ ~ss.online -> roleMaster
      [] rs.online /\ ss.online /\ rs.readOnly /\ ss.configured
            /\ ss.runningIO /\ ss.runningSQL -> roleSlave
      [] rs.online /\ ss.online /\ rs.readOnly /\ ss.configured
            /\ ss.runningIO /\ ~ss.runningSQL -> roleOffline
      [] rs.online /\ ss.online /\ rs.readOnly /\ ss.configured
            /\ ~ss.runningIO -> roleOffline
      [] rs.online /\ ss.online /\ rs.readOnly /\ ~ss.configured -> roleOffline
      [] rs.online /\ ss.online /\ ~rs.readOnly /\ ss.configured
            /\ ss.runningIO /\ ss.runningSQL -> roleSlave
      [] rs.online /\ ss.online /\ ~rs.readOnly /\ ss.configured
            /\ ss.runningIO /\ ~ss.runningSQL -> roleOffline
      [] rs.online /\ ss.online /\ ~rs.readOnly /\ ss.configured
            /\ ~ss.runningIO -> roleMaster
      [] rs.online /\ ss.online /\ ~rs.readOnly /\ ~ss.configured -> roleMaster

\* mergeStatus taking a slave offline when its delay reaches the limit.
mergeStatus_lagAtLimit(ss, rs, ws, maxReplicationDelay) ==
    LET r0 == tableRole(ss, rs)
        r1 == IF r0 = roleSlave /\ ss.delay >= maxReplicationDelay
              THEN roleOffline ELSE r0
        r2 == IF ws.online /\ ~ws.ready THEN roleOffline ELSE r1
    IN  [role |-> r2, latency |-> maxTime(rs.latency, ss.latency)]

\* mergeStatus without the check of the galera node.
mergeStatus_noWsrep(ss, rs, ws, maxReplicationDelay) ==
    LET r0 == tableRole(ss, rs)
        r1 == IF r0 = roleSlave /\ ss.delay > maxReplicationDelay
              THEN roleOffline ELSE r0
    IN  [role |-> r1, latency |-> maxTime(rs.latency, ss.latency)]

\* mergeStatus checking the delay only of a server whose replication check
\* was answered.
mergeStatus_lagIfAnswered(ss, rs, ws, maxReplicationDelay) ==
    LET r0 == tableRole(ss, rs)
        r1 == IF r0 = roleSlave /\ ss.online /\ ss.delay > maxReplicationDelay
              THEN roleOffline ELSE r0
        r2 == IF ws.online /\ ~ws.ready THEN roleOffline ELSE r1
    IN  [role |-> r2, latency |-> maxTime(rs.latency, ss.latency)]

mergeStatus(ss, rs, ws, maxReplicationDelay) ==
    LET r0 == tableRole(ss, rs)
        r1 == IF r0 = roleSlave /\ ss.delay > maxReplicationDelay
              THEN roleOffline ELSE r0
        r2 == IF ws.online /\ ~ws.ready THEN roleOffline ELSE r1
    IN  [role |-> r2, latency |-> maxTime(rs.latency, ss.latency)]

\* The reports of the checks that checkDBStatus does not run: the zero
\* values of their types.
zeroSlaveStatus ==
    [online |-> FALSE, configured |-> FALSE, runningIO |-> FALSE,
     runningSQL |-> FALSE, delay |-> 0, latency |-> 0]

zeroWsrepStatus == [online |-> FALSE, ready |-> FALSE, latency |-> 0]

\* The values of Config that checkDBStatus reads.
Configs ==
    [SkipSlaveCheck : BOOLEAN, SkipGaleraCheck : BOOLEAN,
     MaxReplicationDelay : {defaultMaxReplicationDelay}]

\* checkDBStatus running every check whatever the configuration says.
checkDBStatusOf_skipNothing(ss, rs, ws, cfg) ==
    mergeStatus(ss, rs, ws, cfg.MaxReplicationDelay)

\* checkDBStatus for a server that answers the three checks with ss, rs and
\* ws: a skipped check leaves the zero value of its report.
checkDBStatusOf(ss, rs, ws, cfg) ==
    mergeStatus(IF cfg.SkipSlaveCheck THEN zeroSlaveStatus ELSE ss,
                rs,
                IF cfg.SkipGaleraCheck THEN zeroWsrepStatus ELSE ws,
                cfg.MaxReplicationDelay)

\* Every status one run of checkDBStatus can return (no check skipped).
checkDBStatus ==
    {mergeStatus(ss, rs, ws, defaultMaxReplicationDelay) :
        ss \in slaveStatus, rs \in readOnlyStatus, ws \in wsrepStatus}

\* ------------------------------------------------------------ aggregator
\* The zero value of selection.
noSelection ==
    [master |-> nil, slave |-> nil, lastMaster |-> nil, multipleMasters |-> FALSE]

\* The orders in which a range over a map with key set S can visit the keys.
OrdersOf ==
    [S \in SUBSET Range(SelDBs) |->
        {o \in [1..Cardinality(S) -> S] :
            \A x \in S : \E i \in 1..Cardinality(S) : o[i] = x}]

Orders(S) == OrdersOf[S]

\* rangeStep with multipleMasters raised only when the master is replaced.
rangeStep_mmOnReplace(acc, db, status) ==
    CASE status.role = roleOffline -> acc
      [] status.role = roleMaster ->
            IF acc.masterLatency = 0 \/ status.latency < acc.masterLatency
            THEN [acc EXCEPT !.multipleMasters = acc.multipleMasters \/ acc.master # nil,
                             !.master = db, !.masterLatency = status.latency]
            ELSE acc
      [] status.role = roleSlave ->
            IF acc.slaveLatency = 0 \/ status.latency < acc.slaveLatency
            THEN [acc EXCEPT !.slave = db, !.slaveLatency = status.latency]
            ELSE acc

\* rangeStep telling an earlier master by masterLatency instead of master.
rangeStep_mmByLatency(acc, db, status) ==
    CASE status.role = roleOffline -> acc
      [] status.role = roleMaster ->
            LET mm == acc.multipleMasters \/ acc.masterLatency # 0
            IN  IF acc.masterLatency = 0 \/ status.latency < acc.masterLatency
                THEN [acc EXCEPT !.multipleMasters = mm, !.master = db,
                                 !.masterLatency = status.latency]
                ELSE [acc EXCEPT !.multipleMasters = mm]
      [] status.role = roleSlave ->
            IF acc.slaveLatency = 0 \/ status.latency < acc.slaveLatency
            THEN [acc EXCEPT !.slave = db, !.slaveLatency = status.latency]
            ELSE acc

\* rangeStep taking an offline server for a slave candidate.
rangeStep_offlineSlave(acc, db, status) ==
    CASE status.role = roleMaster ->
            LET mm == acc.multipleMasters \/ acc.master # nil
            IN  IF acc.masterLatency = 0 \/ status.latency < acc.masterLatency
                THEN [acc EXCEPT !.multipleMasters = mm, !.master = db,
                                 !.masterLatency = status.latency]
                ELSE [acc EXCEPT !.multipleMasters = mm]
      [] status.role # roleMaster ->
            IF acc.slaveLatency = 0 \/ status.latency < acc.slaveLatency
            THEN [acc EXCEPT !.slave = db, !.slaveLatency = status.latency]
            ELSE acc

\* rangeStep with multipleMasters raised by the first master already.
rangeStep_mmAlways(acc, db, status) ==
    CASE status.role = roleOffline -> acc
      [] status.role = roleMaster ->
            IF acc.masterLatency = 0 \/ status.latency < acc.masterLatency
            THEN [acc EXCEPT !.multipleMasters = TRUE, !.master = db,
                             !.masterLatency = status.latency]
            ELSE [acc EXCEPT !.multipleMasters = TRUE]
      [] status.role = roleSlave ->
            IF acc.slaveLatency = 0 \/ status.latency < acc.slaveLatency
            THEN [acc EXCEPT !.slave = db, !.slaveLatency = status.latency]
            ELSE acc

\* rangeStep keeping the slave of the highest latency.
rangeStep_slaveMax(acc, db, status) ==
    CASE status.role = roleOffline -> acc
      [] status.role = roleMaster ->
            LET mm == acc.multipleMasters \/ acc.master # nil
            IN  IF acc.masterLatency = 0 \/ status.latency < acc.masterLatency
                THEN [acc EXCEPT !.multipleMasters = mm, !.master = db,
                                 !.masterLatency = status.latency]
                ELSE [acc EXCEPT !.multipleMasters = mm]
      [] status.role = roleSlave ->
            IF acc.slaveLatency = 0 \/ status.latency > acc.slaveLatency
            THEN [acc EXCEPT !.slave = db, !.slaveLatency = status.latency]
            ELSE acc

\* One iteration of the range loop of makeSelection.
rangeStep(acc, db, status) ==
    CASE status.role = roleOffline -> acc
      [] status.role = roleMaster ->
            LET mm == acc.multipleMasters \/ acc.master # nil
            IN  IF acc.masterLatency = 0 \/ status.latency < acc.masterLatency
                THEN [acc EXCEPT !.multipleMasters = mm, !.master = db,
                                 !.masterLatency = status.latency]
                ELSE [acc EXCEPT !.multipleMasters = mm]
      [] status.role = roleSlave ->
            IF acc.slaveLatency = 0 \/ status.latency < acc.slaveLatency
            THEN [acc EXCEPT !.slave = db, !.slaveLatency = status.latency]
            ELSE acc

RECURSIVE rangeLoop(_, _, _)
rangeLoop(statuses, order, acc) ==
    IF order = <<>> THEN acc
    ELSE rangeLoop(statuses, Tail(order),
                   rangeStep(acc, Head(order), statuses[Head(order)]))

\* makeSelection without the carry-over of lastMaster.
makeSelection_dropLast(statuses, lastMaster, order) ==
    LET acc == rangeLoop(statuses, order,
                   [master |-> nil, masterLatency |-> 0, slave |-> nil,
                    slaveLatency |-> 0, multipleMasters |-> FALSE])
        slave == IF acc.slave = nil THEN acc.master ELSE acc.slave
    IN  [master |-> acc.master, slave |-> slave, lastMaster |-> acc.master,
         multipleMasters |-> acc.multipleMasters]

\* makeSelection taking the slave for lastMaster when there is no master.
makeSelection_lastSlave(statuses, lastMaster, order) ==
    LET acc == rangeLoop(statuses, order,
                   [master |-> nil, masterLatency |-> 0, slave |-> nil,
                    slaveLatency |-> 0, multipleMasters |-> FALSE])
        slave == IF acc.slave = nil THEN acc.master ELSE acc.slave
        last == IF acc.master # nil THEN acc.master
                ELSE IF acc.slave # nil THEN acc.slave ELSE lastMaster
    IN  [master |-> acc.master, slave |-> slave, lastMaster |-> last,
         multipleMasters |-> acc.multipleMasters]

\* makeSelection that leaves the slave unset when no server is a slave.
makeSelection_noFallback(statuses, lastMaster, order) ==
    LET acc == rangeLoop(statuses, order,
                   [master |-> nil, masterLatency |-> 0, slave |-> nil,
                    slaveLatency |-> 0, multipleMasters |-> FALSE])
        last == IF acc.master # nil THEN acc.master ELSE lastMaster
    IN  [master |-> acc.master, slave |-> acc.slave, lastMaster |-> last,
         multipleMasters |-> acc.multipleMasters]

\* makeSelection, for one order of the map iteration.
makeSelection(statuses, lastMaster, order) ==
    LET acc == rangeLoop(statuses, order,
                   [master |-> nil, masterLatency |-> 0, slave |-> nil,
                    slaveLatency |-> 0, multipleMasters |-> FALSE])
        slave == IF acc.slave = nil THEN acc.master ELSE acc.slave
        last == IF acc.master # nil THEN acc.master ELSE lastMaster
    IN  [master |-> acc.master, slave |-> slave, lastMaster |-> last,
         multipleMasters |-> acc.multipleMasters]

\* ---------------------------------------------------------- error driver
ErrNoDatabases == "empty database set provided"
ErrMultipleMasters == "multiple database master connections found"

\* errors.New(text): an error value that is not one of the package's
\* sentinel errors, whatever its text.
errorsNew(text) == <<"errors.New", text>>

\* The data source name newMultipleMasterErrConn opens the error driver with.
errConnDSN == ErrMultipleMasters

\* The nil error.
noError == <<"nil">>

\* An error value that is one of the package's sentinel errors.
sentinel(text) == <<"sentinel", text>>

\* errorDriver.Open without the comparison with ErrMultipleMasters.
errorDriverOpen_generic(err) == errorsNew(err)

\* errorDriver.Open: the error every connection attempt ends with.
errorDriverOpen(err) ==
    IF err = ErrMultipleMasters THEN sentinel(ErrMultipleMasters)
    ELSE errorsNew(err)

newMultipleMasterErrConn == errConn

\* The errors a query through a handle can end with; <<"ok">> is success.
queryOutcomes(db) ==
    IF db = errConn THEN {errorDriverOpen(errConnDSN)}
    ELSE {<<"ok">>, errorsNew("driver error")}

\* ------------------------------------------------------------- accessors
\* Master without the check of multipleMasters.
Master_noPoison(sel) ==
    IF sel.master # nil THEN sel.master ELSE sel.lastMaster

\* Slave with the check of multipleMasters that Master has.
Slave_poisoned(sel) ==
    IF sel.multipleMasters THEN newMultipleMasterErrConn
    ELSE IF sel.slave # nil THEN sel.slave
    ELSE sel.lastMaster

Master(sel) ==
    IF sel.multipleMasters THEN newMultipleMasterErrConn
    ELSE IF sel.master # nil THEN sel.master
    ELSE sel.lastMaster

\* Slave preferring the last seen master to the selected slave.
Slave_lastFirst(sel) ==
    IF sel.lastMaster # nil THEN sel.lastMaster ELSE sel.slave

Slave(sel) ==
    IF sel.slave # nil THEN sel.slave ELSE sel.lastMaster

\* ----------------------------------------------------------------- state
VARIABLES
    phase,       \* "init": New not called; "failed": New returned an error;
                 \* "running": New returned a controller; "pure" and
                 \* "selected": makeSelection applied on its own (SpecSel);
                 \* "reports", "merged" and "checked": mergeStatus and
                 \* checkDBStatus on their own (SpecMerge)
    dbs,         \* the list New was called with
    err,         \* the error New returned (noError for none)
    p,           \* the controller New returned (nil for none)
    active,      \* DBs.active, the published selection
    state,       \* the status map of NewWithConfig and run
    lastMaster,  \* the variable lastMaster of NewWithConfig and run
    ctxDone,     \* the context of the controller is cancelled
    runPc,       \* the consumer: "none", "start", "select", "done"
    loopPc,      \* per server, its checkLoop: "none", "wait", "send", "done"
    pending,     \* per server, the status its checkLoop is sending
    probes,      \* number of checkDBStatus runs so far
    everMaster,  \* history: servers some probe has classified Master
    seenMaster,  \* history: master of the latest selection that had one
    hadMultiple, \* history: some published selection had multipleMasters
    ret,         \* result of the accessor call made in the last step
    merged,      \* mergeStatus applied on its own (SpecMerge): its
                 \* arguments and its result
    mu,          \* DBs.mu and the tasks that use it step by step (SpecLock)
    fleet,       \* what each server answers to a probe (SpecFleet), or
                 \* anyFleet: any answer
    fo           \* package v3: the Failover that New makes and the tasks
                 \* that work on it (SpecV3)

vars == <<phase, dbs, err, p, active, state, lastMaster, ctxDone, runPc,
          loopPc, pending, probes, everMaster, seenMaster, hadMultiple, ret,
          merged, mu, fleet, fo>>

noStatus == [role |-> roleOffline, latency |-> 0]
noCall == [op |-> "none", db |-> nil, err |-> <<"none">>]
noMerge == <<>>
noLock == <<>>
anyFleet == <<>>
noFailover == <<>>

mastersOf(st) == {d \in DOMAIN st : st[d].role = roleMaster}
slavesOf(st) == {d \in DOMAIN st : st[d].role = roleSlave}

Init ==
    /\ phase = "init"
    /\ dbs = <<>>
    /\ err = noError
    /\ p = nil
    /\ active = noSelection
    /\ state = [d \in {} |-> noStatus]
    /\ lastMaster = nil
    /\ ctxDone = FALSE
    /\ runPc = "none"
    /\ loopPc = [d \in Range(AllDBs) |-> "none"]
    /\ pending = [d \in Range(AllDBs) |-> noStatus]
    /\ probes = 0
    /\ everMaster = {}
    /\ seenMaster = nil
    /\ hadMultiple = FALSE
    /\ ret = noCall
    /\ merged = noMerge
    /\ mu = noLock
    /\ fleet = anyFleet
    /\ fo = noFailover

\* NewWithConfig with the consumer started before the list is checked.
NewEmpty_started ==
    /\ phase = "init"
    /\ phase' = "failed"
    /\ dbs' = <<>>
    /\ err' = sentinel(ErrNoDatabases)
    /\ runPc' = "start"
    /\ UNCHANGED <<p, active, state, lastMaster, ctxDone, loopPc, pending,
                   probes, everMaster, seenMaster, hadMultiple, ret>>
    /\ UNCHANGED <<merged, mu, fleet, fo>>

\* NewWithConfig called with an empty list.
NewEmpty ==
    /\ phase = "init"
    /\ phase' = "failed"
    /\ dbs' = <<>>
    /\ err' = sentinel(ErrNoDatabases)
    /\ UNCHANGED <<p, active, state, lastMaster, ctxDone, runPc, loopPc,
                   pending, probes, everMaster, seenMaster, hadMultiple, ret>>
    /\ UNCHANGED <<merged, mu, fleet, fo>>

\* checkBatch returning after the probe of the first server only.
checkBatch_firstOnly(list) == [{list[1]} -> checkDBStatus]

\* checkBatch: one status per server of the list, each from one probe.
checkBatch(list) == [Range(list) -> checkDBStatus]

\* NewWithConfig called with a non-empty list: checkBatch probes every
\* server, makeSelection aggregates with dbs[0] for lastMaster, and either
\* ErrMultipleMasters is returned or the controller is, its consumer
\* started with the status map and with dbs[0] for lastMaster.
NewWithConfig ==
    /\ phase = "init"
    /\ \E list \in DBLists \ {<<>>} :
       \E st \in checkBatch(list) :
       \E sel \in {makeSelection(st, list[1], order) : order \in Orders(DOMAIN st)} :
           /\ dbs' = list
           /\ state' = st
           /\ lastMaster' = list[1]
           /\ active' = sel
           /\ probes' = Len(list)
           /\ everMaster' = mastersOf(st)
           /\ IF sel.multipleMasters
              THEN /\ phase' = "failed"
                   /\ err' = sentinel(ErrMultipleMasters)
                   /\ p' = nil
                   /\ runPc' = "none"
                   /\ seenMaster' = nil
              ELSE /\ phase' = "running"
                   /\ err' = noError
                   /\ p' = "DBs"
                   /\ runPc' = "start"
                   /\ seenMaster' = sel.master
    /\ UNCHANGED <<ctxDone, loopPc, pending, hadMultiple, ret>>
    /\ UNCHANGED <<merged, mu, fleet, fo>>

\* run: make the update channel and start one checkLoop per server.
runStart ==
    /\ runPc = "start"
    /\ runPc' = "select"
    /\ loopPc' = [d \in Range(AllDBs) |->
                    IF d \in DOMAIN state THEN "wait" ELSE "none"]
    /\ ret' = noCall
    /\ UNCHANGED <<phase, dbs, err, p, active, state, lastMaster, ctxDone,
                   pending, probes, everMaster, seenMaster, hadMultiple>>
    /\ UNCHANGED <<merged, mu, fleet, fo>>

\* checkLoop that probes again while its previous status is still waiting
\* to be received, and sends the newer one.
checkLoopTick_retry(db) ==
    /\ loopPc[db] \in {"wait", "send"}
    /\ fleet = anyFleet => probes < MaxProbes
    /\ \E status \in IF fleet = anyFleet THEN checkDBStatus ELSE {fleet[db]} :
         /\ pending' = [pending EXCEPT ![db] = status]
         /\ everMaster' = IF status.role = roleMaster
                          THEN everMaster \cup {db} ELSE everMaster
    /\ loopPc' = [loopPc EXCEPT ![db] = "send"]
    /\ probes' = IF fleet = anyFleet THEN probes + 1 ELSE probes
    /\ ret' = noCall
    /\ UNCHANGED <<phase, dbs, err, p, active, state, lastMaster, ctxDone,
                   runPc, seenMaster, hadMultiple>>
    /\ UNCHANGED <<merged, mu, fleet, fo>>

\* checkLoop: the ticker fires, checkDBStatus probes the server, and the
\* loop goes on to hand the status to the consumer. The probe gives what
\* the server answers now if the fleet is followed, and any status if not;
\* probes counts (and MaxProbes bounds) the probes of a fleet not followed.
checkLoopTick(db) ==
    /\ loopPc[db] = "wait"
    /\ fleet = anyFleet => probes < MaxProbes
    /\ \E status \in IF fleet = anyFleet THEN checkDBStatus ELSE {fleet[db]} :
         /\ pending' = [pending EXCEPT ![db] = status]
         /\ everMaster' = IF status.role = roleMaster
                          THEN everMaster \cup {db} ELSE everMaster
    /\ loopPc' = [loopPc EXCEPT ![db] = "send"]
    /\ probes' = IF fleet = anyFleet THEN probes + 1 ELSE probes
    /\ ret' = noCall
    /\ UNCHANGED <<phase, dbs, err, p, active, state, lastMaster, ctxDone,
                   runPc, seenMaster, hadMultiple>>
    /\ UNCHANGED <<merged, mu, fleet, fo>>

\* checkLoop whose send to the consumer has no ctx.Done() case: the loop
\* leaves only between ticks.
checkLoopDone_waitOnly(db) ==
    /\ loopPc[db] = "wait"
    /\ ctxDone
    /\ loopPc' = [loopPc EXCEPT ![db] = "done"]
    /\ pending' = [pending EXCEPT ![db] = noStatus]
    /\ ret' = noCall
    /\ UNCHANGED <<phase, dbs, err, p, active, state, lastMaster, ctxDone,
                   runPc, probes, everMaster, seenMaster, hadMultiple>>
    /\ UNCHANGED <<merged, mu, fleet, fo>>

\* checkLoop: ctx.Done() is taken, between ticks or while sending.
checkLoopDone(db) ==
    /\ loopPc[db] \in {"wait", "send"}
    /\ ctxDone
    /\ loopPc' = [loopPc EXCEPT ![db] = "done"]
    /\ pending' = [pending EXCEPT ![db] = noStatus]
    /\ ret' = noCall
    /\ UNCHANGED <<phase, dbs, err, p, active, state, lastMaster, ctxDone,
                   runPc, probes, everMaster, seenMaster, hadMultiple>>
    /\ UNCHANGED <<merged, mu, fleet, fo>>

\* run that records an update and leaves p.active as it is.
runUpdate_noPublish(db) ==
    /\ runPc = "select"
    /\ loopPc[db] = "send"
    /\ state' = [state EXCEPT ![db] = pending[db]]
    /\ loopPc' = [loopPc EXCEPT ![db] = "wait"]
    /\ pending' = [pending EXCEPT ![db] = noStatus]
    /\ ret' = noCall
    /\ UNCHANGED <<phase, dbs, err, p, active, lastMaster, ctxDone, runPc,
                   probes, everMaster, seenMaster, hadMultiple, merged, mu,
                   fleet, fo>>

\* run: an update is received from the checkLoop of db, recorded in the
\* status map, aggregated and published; lastMaster is kept for the next
\* iteration. The status map and lastMaster are locals of the consumer, so
\* no other task sees a state between these assignments.
runUpdate(db) ==
    /\ runPc = "select"
    /\ loopPc[db] = "send"
    /\ LET st == [state EXCEPT ![db] = pending[db]] IN
       \E sel \in {makeSelection(st, lastMaster, order) : order \in Orders(DOMAIN st)} :
           /\ state' = st
           /\ active' = sel
           /\ lastMaster' = sel.lastMaster
           /\ seenMaster' = IF sel.master # nil THEN sel.master ELSE seenMaster
           /\ hadMultiple' = (hadMultiple \/ sel.multipleMasters)
    /\ loopPc' = [loopPc EXCEPT ![db] = "wait"]
    /\ pending' = [pending EXCEPT ![db] = noStatus]
    /\ ret' = noCall
    /\ UNCHANGED <<phase, dbs, err, p, ctxDone, runPc, probes, everMaster>>
    /\ UNCHANGED <<merged, mu, fleet, fo>>

\* run: ctx.Done() is taken.
runDone ==
    /\ runPc = "select"
    /\ ctxDone
    /\ runPc' = "done"
    /\ ret' = noCall
    /\ UNCHANGED <<phase, dbs, err, p, active, state, lastMaster, ctxDone,
                   loopPc, pending, probes, everMaster, seenMaster, hadMultiple>>
    /\ UNCHANGED <<merged, mu, fleet, fo>>

\* What ret holds after a call of Stop: whether the context was cancelled
\* before it already.
stopCall(again) ==
    [op |-> "Stop", db |-> nil, err |-> IF again THEN <<"again">> ELSE <<"first">>]

\* DBs.Stop closing a channel of its own, which panics the second time.
Stop_closeTwice ==
    /\ phase = "running"
    /\ ctxDone' = TRUE
    /\ phase' = IF ctxDone THEN "panicked" ELSE phase
    /\ ret' = stopCall(ctxDone)
    /\ UNCHANGED <<dbs, err, p, active, state, lastMaster, runPc, loopPc,
                   pending, probes, everMaster, seenMaster, hadMultiple>>
    /\ UNCHANGED <<merged, mu, fleet, fo>>

\* DBs.Stop: the cancel function of the context, which does nothing after
\* its first call.
Stop ==
    /\ phase = "running"
    /\ ctxDone' = TRUE
    /\ ret' = stopCall(ctxDone)
    /\ UNCHANGED <<phase, dbs, err, p, active, state, lastMaster, runPc, loopPc,
                   pending, probes, everMaster, seenMaster, hadMultiple>>
    /\ UNCHANGED <<merged, mu, fleet, fo>>

\* DBs.Master called by a client holding the controller.
MasterCall ==
    /\ p # nil
    /\ ret' = [op |-> "Master", db |-> Master(active), err |-> <<"none">>]
    /\ UNCHANGED <<phase, dbs, err, p, active, state, lastMaster, ctxDone,
                   runPc, loopPc, pending, probes, everMaster, seenMaster,
                   hadMultiple>>
    /\ UNCHANGED <<merged, mu, fleet, fo>>

\* DBs.Slave called by a client holding the controller.
SlaveCall ==
    /\ p # nil
    /\ ret' = [op |-> "Slave", db |-> Slave(active), err |-> <<"none">>]
    /\ UNCHANGED <<phase, dbs, err, p, active, state, lastMaster, ctxDone,
                   runPc, loopPc, pending, probes, everMaster, seenMaster,
                   hadMultiple>>
    /\ UNCHANGED <<merged, mu, fleet, fo>>

\* A client runs a query through the handle Master() gives it, as in
\* p.Master().Exec(...).
MasterExec ==
    /\ p # nil
    /\ \E e \in queryOutcomes(Master(active)) :
         ret' = [op |-> "Exec", db |-> Master(active), err |-> e]
    /\ UNCHANGED <<phase, dbs, err, p, active, state, lastMaster, ctxDone,
                   runPc, loopPc, pending, probes, everMaster, seenMaster,
                   hadMultiple>>
    /\ UNCHANGED <<merged, mu, fleet, fo>>

Next ==
    \/ NewEmpty
    \/ NewWithConfig
    \/ runStart
    \/ \E db \in Range(AllDBs) : checkLoopTick(db)
    \/ \E db \in Range(AllDBs) : checkLoopDone(db)
    \/ \E db \in Range(AllDBs) : runUpdate(db)
    \/ runDone
    \/ Stop
    \/ MasterCall
    \/ SlaveCall
    \/ MasterExec

Spec == Init /\ [][Next]_vars

\* The tasks of the controller and Stop, without the callers of Master()
\* and Slave(): these only read p.active under the read lock and act on no
\* task.
NextTasks ==
    \/ NewEmpty
    \/ NewWithConfig
    \/ runStart
    \/ \E db \in Range(AllDBs) : checkLoopTick(db)
    \/ \E db \in Range(AllDBs) : checkLoopDone(db)
    \/ \E db \in Range(AllDBs) : runUpdate(db)
    \/ runDone
    \/ Stop

\* The scheduling of the tasks: the consumer task, once started with go,
\* runs; a select whose ctx.Done() case is ready takes it in the end (Go
\* picks uniformly among the ready cases, and a probe ends within
\* CheckTimeout). Stated as one condition on all of these steps together,
\* which asks less than one condition for each.
SpecFair ==
    /\ Init
    /\ [][NextTasks]_vars
    /\ WF_vars(runStart \/ runDone \/ \E db \in Range(AllDBs) : checkLoopDone(db))

\* ------------------------------------------- the aggregator on its own
\* A status map over one to four servers and any lastMaster.
InitSel ==
    /\ phase = "pure"
    /\ dbs \in SelLists
    /\ state \in [Range(dbs) -> checkDBStatus]
    /\ lastMaster \in Range(dbs) \cup {nil}
    /\ err = noError
    /\ p = nil
    /\ active = noSelection
    /\ ctxDone = FALSE
    /\ runPc = "none"
    /\ loopPc = [d \in Range(AllDBs) |-> "none"]
    /\ pending = [d \in Range(AllDBs) |-> noStatus]
    /\ probes = 0
    /\ everMaster = {}
    /\ seenMaster = nil
    /\ hadMultiple = FALSE
    /\ ret = noCall
    /\ merged = noMerge
    /\ mu = noLock
    /\ fleet = anyFleet
    /\ fo = noFailover

\* makeSelection applied to the status map, its result held by a controller.
selMake ==
    /\ phase = "pure"
    /\ \E order \in Orders(DOMAIN state) :
         active' = makeSelection(state, lastMaster, order)
    /\ phase' = "selected"
    /\ p' = "DBs"
    /\ UNCHANGED <<dbs, err, state, lastMaster, ctxDone, runPc, loopPc, pending,
                   probes, everMaster, seenMaster, hadMultiple, ret>>
    /\ UNCHANGED <<merged, mu, fleet, fo>>

NextSel ==
    \/ selMake
    \/ MasterCall
    \/ SlaveCall
    \/ MasterExec

SpecSel == InitSel /\ [][NextSel]_vars

\* The fields of the struct selection, in the order of an assignment that
\* copies the struct field by field.
Fields == <<"master", "slave", "lastMaster", "multipleMasters">>

\* DBs.mu free, the consumer in its select, no caller in an accessor.
\*   writer, readers: the state of the RWMutex;
\*   wpc, wnew, wn: the consumer between `u := <-updates` and Unlock, its
\*     local variable active, and the number of fields of p.active written;
\*   pub: history, the selection published when the consumer computed wnew;
\*   rpc, rcopy, rn: a caller inside Master() or Slave(), its local variable
\*     active, and the number of fields copied.
idleLock ==
    [writer |-> FALSE, readers |-> 0,
     wpc |-> "select", wnew |-> noSelection, wn |-> 0, pub |-> noSelection,
     rpc |-> "idle", rcopy |-> noSelection, rn |-> 0]

\* The controller step by step around DBs.mu: as Init, with the mutex.
InitLock ==
    /\ phase = "init"
    /\ dbs = <<>>
    /\ err = noError
    /\ p = nil
    /\ active = noSelection
    /\ state = [d \in {} |-> noStatus]
    /\ lastMaster = nil
    /\ ctxDone = FALSE
    /\ runPc = "none"
    /\ loopPc = [d \in Range(AllDBs) |-> "none"]
    /\ pending = [d \in Range(AllDBs) |-> noStatus]
    /\ probes = 0
    /\ everMaster = {}
    /\ seenMaster = nil
    /\ hadMultiple = FALSE
    /\ ret = noCall
    /\ merged = noMerge
    /\ mu = idleLock
    /\ fleet = anyFleet
    /\ fo = noFailover

\* run: the checkLoop of db has probed its server and hands over the
\* status; the update is received and recorded, and makeSelection gives the
\* local variable active. The polling loops are not followed step by step
\* here: an update arrives or it does not.
runRecv(db) ==
    /\ runPc = "select"
    /\ mu.wpc = "select"
    /\ db \in DOMAIN state
    /\ probes < MaxLockProbes
    /\ \E status \in checkDBStatus :
       LET st == [state EXCEPT ![db] = status] IN
       \E sel \in {makeSelection(st, lastMaster, order) : order \in Orders(DOMAIN st)} :
           /\ state' = st
           /\ mu' = [mu EXCEPT !.wpc = "lock", !.wnew = sel, !.pub = active]
    /\ probes' = probes + 1
    /\ ret' = noCall
    /\ UNCHANGED <<phase, dbs, err, p, active, lastMaster, ctxDone, runPc,
                   loopPc, pending, everMaster, seenMaster, hadMultiple,
                   merged, fleet, fo>>

\* p.mu.Lock() that does not wait for the readers to leave.
runLock_noWait ==
    /\ mu.wpc = "lock"
    /\ ~mu.writer
    /\ mu' = [mu EXCEPT !.writer = TRUE, !.wpc = "write", !.wn = 0]
    /\ ret' = noCall
    /\ UNCHANGED <<phase, dbs, err, p, active, state, lastMaster, ctxDone,
                   runPc, loopPc, pending, probes, everMaster, seenMaster,
                   hadMultiple, merged, fleet, fo>>

\* run: p.mu.Lock(), which waits until no reader and no writer holds it.
runLock ==
    /\ mu.wpc = "lock"
    /\ ~mu.writer
    /\ mu.readers = 0
    /\ mu' = [mu EXCEPT !.writer = TRUE, !.wpc = "write", !.wn = 0]
    /\ ret' = noCall
    /\ UNCHANGED <<phase, dbs, err, p, active, state, lastMaster, ctxDone,
                   runPc, loopPc, pending, probes, everMaster, seenMaster,
                   hadMultiple, merged, fleet, fo>>

\* run: p.active = active, one field of the struct at a time.
runWrite ==
    /\ mu.wpc = "write"
    /\ mu.wn < Len(Fields)
    /\ active' = [active EXCEPT ![Fields[mu.wn + 1]] = mu.wnew[Fields[mu.wn + 1]]]
    /\ mu' = [mu EXCEPT !.wn = mu.wn + 1]
    /\ ret' = noCall
    /\ UNCHANGED <<phase, dbs, err, p, state, lastMaster, ctxDone, runPc,
                   loopPc, pending, probes, everMaster, seenMaster,
                   hadMultiple, merged, fleet, fo>>

\* run that keeps the lock until after the next update.
runUnlock_heldOver ==
    /\ mu.wpc = "write"
    /\ mu.wn = Len(Fields)
    /\ lastMaster' = mu.wnew.lastMaster
    /\ mu' = [mu EXCEPT !.wpc = "select", !.wnew = noSelection, !.wn = 0,
                        !.pub = noSelection]
    /\ ret' = noCall
    /\ UNCHANGED <<phase, dbs, err, p, active, state, ctxDone, runPc, loopPc,
                   pending, probes, everMaster, seenMaster, hadMultiple,
                   merged, fleet, fo>>

\* run: p.mu.Unlock(), then lastMaster = active.lastMaster and back to the
\* select.
runUnlock ==
    /\ mu.wpc = "write"
    /\ mu.wn = Len(Fields)
    /\ lastMaster' = mu.wnew.lastMaster
    /\ mu' = [mu EXCEPT !.writer = FALSE, !.wpc = "select",
                        !.wnew = noSelection, !.wn = 0, !.pub = noSelection]
    /\ ret' = noCall
    /\ UNCHANGED <<phase, dbs, err, p, active, state, ctxDone, runPc, loopPc,
                   pending, probes, everMaster, seenMaster, hadMultiple,
                   merged, fleet, fo>>

\* A caller enters Master() or Slave().
callStart ==
    /\ p # nil
    /\ mu.rpc = "idle"
    /\ mu' = [mu EXCEPT !.rpc = "rlock"]
    /\ ret' = noCall
    /\ UNCHANGED <<phase, dbs, err, p, active, state, lastMaster, ctxDone,
                   runPc, loopPc, pending, probes, everMaster, seenMaster,
                   hadMultiple, merged, fleet, fo>>

\* Master, Slave: p.mu.RLock(), which waits while a writer holds the lock.
callRLock ==
    /\ mu.rpc = "rlock"
    /\ ~mu.writer
    /\ mu' = [mu EXCEPT !.readers = mu.readers + 1, !.rpc = "copy", !.rn = 0]
    /\ ret' = noCall
    /\ UNCHANGED <<phase, dbs, err, p, active, state, lastMaster, ctxDone,
                   runPc, loopPc, pending, probes, everMaster, seenMaster,
                   hadMultiple, merged, fleet, fo>>

\* Master, Slave: active := p.active, one field of the struct at a time.
callCopy ==
    /\ mu.rpc = "copy"
    /\ mu.rn < Len(Fields)
    /\ mu' = [mu EXCEPT !.rcopy[Fields[mu.rn + 1]] = active[Fields[mu.rn + 1]],
                        !.rn = mu.rn + 1]
    /\ ret' = noCall
    /\ UNCHANGED <<phase, dbs, err, p, active, state, lastMaster, ctxDone,
                   runPc, loopPc, pending, probes, everMaster, seenMaster,
                   hadMultiple, merged, fleet, fo>>

\* Master, Slave: p.mu.RUnlock().
callRUnlock ==
    /\ mu.rpc = "copy"
    /\ mu.rn = Len(Fields)
    /\ mu' = [mu EXCEPT !.readers = mu.readers - 1, !.rpc = "ret"]
    /\ ret' = noCall
    /\ UNCHANGED <<phase, dbs, err, p, active, state, lastMaster, ctxDone,
                   runPc, loopPc, pending, probes, everMaster, seenMaster,
                   hadMultiple, merged, fleet, fo>>

\* Master, Slave: the handle is chosen from the copy and returned.
callReturn ==
    /\ mu.rpc = "ret"
    /\ \E op \in {"Master", "Slave"} :
         ret' = [op |-> op,
                 db |-> IF op = "Master" THEN Master(mu.rcopy) ELSE Slave(mu.rcopy),
                 err |-> <<"none">>]
    /\ mu' = [mu EXCEPT !.rpc = "idle", !.rcopy = noSelection, !.rn = 0]
    /\ UNCHANGED <<phase, dbs, err, p, active, state, lastMaster, ctxDone,
                   runPc, loopPc, pending, probes, everMaster, seenMaster,
                   hadMultiple, merged, fleet, fo>>

NextLock ==
    \/ NewEmpty
    \/ NewWithConfig
    \/ runStart
    \/ \E db \in Range(AllDBs) : runRecv(db)
    \/ runLock
    \/ runWrite
    \/ runUnlock
    \/ callStart
    \/ callRLock
    \/ callCopy
    \/ callRUnlock
    \/ callReturn

SpecLock == InitLock /\ [][NextLock]_vars

\* The scheduling around the lock: a task that is inside Lock/Unlock or
\* inside an accessor goes on, and a caller waiting in RLock gets the lock
\* when the writer leaves. Nothing is asked of the polling loops and of the
\* arrival of updates.
SpecLockFair ==
    /\ SpecLock
    /\ WF_vars(runLock \/ runWrite \/ runUnlock)
    /\ SF_vars(callRLock)
    /\ WF_vars(callCopy \/ callRUnlock \/ callReturn)

\* The two servers of a controller that follows its fleet.
FleetDBs == <<"A", "B">>

\* A running controller whose initial round has just seen the fleet as it
\* is, for every fleet with at most one master.
InitHandover ==
    /\ phase = "running"
    /\ dbs = FleetDBs
    /\ fleet \in [Range(FleetDBs) -> checkDBStatus]
    /\ fo = noFailover
    /\ Cardinality(mastersOf(fleet)) <= 1
    /\ state = fleet
    /\ lastMaster = dbs[1]
    /\ active \in {makeSelection(state, dbs[1], o) : o \in Orders(Range(FleetDBs))}
    /\ err = noError
    /\ p = "DBs"
    /\ ctxDone = FALSE
    /\ runPc = "start"
    /\ loopPc = [d \in Range(AllDBs) |-> "none"]
    /\ pending = [d \in Range(AllDBs) |-> noStatus]
    /\ probes = Len(FleetDBs)
    /\ everMaster = mastersOf(fleet)
    /\ seenMaster = active.master
    /\ hadMultiple = FALSE
    /\ ret = noCall
    /\ merged = noMerge
    /\ mu = noLock

\* A server of the fleet changes its role, and the fleet still has at most
\* one master: a master is demoted before another server is promoted.
fleetChange(db) ==
    /\ fleet # anyFleet
    /\ db \in DOMAIN fleet
    /\ \E r \in Roles \ {fleet[db].role} :
         /\ fleet' = [fleet EXCEPT ![db].role = r]
         /\ Cardinality(mastersOf(fleet')) <= 1
    /\ ret' = noCall
    /\ UNCHANGED <<phase, dbs, err, p, active, state, lastMaster, ctxDone,
                   runPc, loopPc, pending, probes, everMaster, seenMaster,
                   hadMultiple, merged, mu, fo>>

NextHandover ==
    \/ runStart
    \/ \E db \in Range(AllDBs) : fleetChange(db)
    \/ \E db \in Range(AllDBs) : checkLoopTick(db)
    \/ \E db \in Range(AllDBs) : runUpdate(db)

SpecHandover == InitHandover /\ [][NextHandover]_vars

\* A running controller whose fleet stays as it is from now on, while the
\* statuses recorded are older: every fleet, and for the recorded statuses
\* every role with the latency of the fleet; lastMaster is any server the
\* consumer may have seen as master.
InitSteady ==
    /\ phase = "running"
    /\ dbs = FleetDBs
    /\ fleet \in [Range(FleetDBs) -> checkDBStatus]
    /\ fo = noFailover
    /\ state \in [Range(FleetDBs) -> checkDBStatus]
    /\ \A d \in Range(FleetDBs) : state[d].latency = fleet[d].latency
    /\ lastMaster \in Range(FleetDBs)
    /\ active \in {makeSelection(state, lm, o) :
                     lm \in Range(FleetDBs), o \in Orders(Range(FleetDBs))}
    /\ active.lastMaster = lastMaster
    /\ err = noError
    /\ p = "DBs"
    /\ ctxDone = FALSE
    /\ runPc = "select"
    /\ loopPc = [d \in Range(AllDBs) |-> IF d \in Range(FleetDBs) THEN "wait" ELSE "none"]
    /\ pending = [d \in Range(AllDBs) |-> noStatus]
    /\ probes = Len(FleetDBs)
    /\ everMaster = mastersOf(state)
    /\ seenMaster = active.master
    /\ hadMultiple = FALSE
    /\ ret = noCall
    /\ merged = noMerge
    /\ mu = noLock

NextSteady ==
    \/ \E db \in Range(AllDBs) : checkLoopTick(db)
    \/ \E db \in Range(AllDBs) : runUpdate(db)

\* The scheduling of a controller that is not stopped: the ticker of every
\* polling loop fires and its probe ends within CheckTimeout, and the
\* consumer takes an update that a loop is handing over.
SpecSteady ==
    /\ InitSteady
    /\ [][NextSteady]_vars
    /\ \A db \in Range(FleetDBs) : WF_vars(checkLoopTick(db))
    /\ \A db \in Range(FleetDBs) : WF_vars(runUpdate(db))

\* mergeStatus on its own: called with any three reports and any limit.
InitMerge ==
    /\ phase = "reports"
    /\ dbs = <<"A">>
    /\ state = [d \in {"A"} |-> noStatus]
    /\ lastMaster = nil
    /\ err = noError
    /\ p = nil
    /\ active = noSelection
    /\ ctxDone = FALSE
    /\ runPc = "none"
    /\ loopPc = [d \in Range(AllDBs) |-> "none"]
    /\ pending = [d \in Range(AllDBs) |-> noStatus]
    /\ probes = 0
    /\ everMaster = {}
    /\ seenMaster = nil
    /\ hadMultiple = FALSE
    /\ ret = noCall
    /\ merged = noMerge
    /\ mu = noLock
    /\ fleet = anyFleet
    /\ fo = noFailover

\* mergeStatus applied to three reports; its result is the status of the
\* one server of the map, and makeSelection is applied to that map.
mergeApply ==
    /\ phase = "reports"
    /\ \E ss \in slaveReports, rs \in readOnlyReports, ws \in wsrepReports,
          limit \in DelayLimits :
         LET out == mergeStatus(ss, rs, ws, limit) IN
           /\ merged' = [ss |-> ss, rs |-> rs, ws |-> ws,
                         maxReplicationDelay |-> limit, out |-> out]
           /\ state' = [d \in {"A"} |-> out]
           /\ active' = makeSelection([d \in {"A"} |-> out], lastMaster, <<"A">>)
    /\ phase' = "merged"
    /\ UNCHANGED <<dbs, err, p, lastMaster, ctxDone, runPc, loopPc, pending,
                   probes, everMaster, seenMaster, hadMultiple, ret>>
    /\ UNCHANGED <<mu, fleet, fo>>

\* checkDBStatus applied, under a configuration, to a server that answers
\* the checks with three reports.
checkApply ==
    /\ phase = "reports"
    /\ \E ss \in slaveStatus, rs \in readOnlyStatus, ws \in wsrepStatus,
          cfg \in Configs :
         merged' = [ss |-> ss, rs |-> rs, ws |-> ws, cfg |-> cfg,
                    out |-> checkDBStatusOf(ss, rs, ws, cfg)]
    /\ phase' = "checked"
    /\ UNCHANGED <<dbs, err, p, active, state, lastMaster, ctxDone, runPc,
                   loopPc, pending, probes, everMaster, seenMaster,
                   hadMultiple, ret>>
    /\ UNCHANGED <<mu, fleet, fo>>

NextMerge ==
    \/ mergeApply
    \/ checkApply

SpecMerge == InitMerge /\ [][NextMerge]_vars

\* ------------------------------------------------------------ package v3
\* The variables of package dbfailover, which no step of package v3 touches.
dbsVars == <<phase, dbs, err, p, active, state, lastMaster, ctxDone, runPc,
             loopPc, pending, probes, everMaster, seenMaster, hadMultiple,
             ret, merged, mu, fleet>>

FailoverStatusHealthy == "healthy"
FailoverStatusMissingMaster == "missing_master"
FailoverStatusConflictingMasters == "conflicting_masters"
FailoverStatusUnresponsiveSlaves == "unresponsive_slaves"

\* The zero value of FailoverStatus, which a new Failover has.
FailoverStatusZero == ""

dbStateUnavailable == 0
dbStateMaster == 1
dbStateSlave == 2

dbStates == {dbStateUnavailable, dbStateMaster, dbStateSlave}

\* The Failover before New is called.
\*   pc: the caller of New: "init", then inside updateFailover "refreshDBs",
\*     "wait", "updateStatus", "notify", then "check" and "returned";
\*   dbs, state: f.dbs and the state field of each failoverDB;
\*   status, master, slaves, mu: the fields of Failover;
\*   wg, task: the WaitGroup counter of refreshDBs, and per server its
\*     refresh task: "none", "refresh", "done" (before wg.Done()), "exited";
\*   i, lmaster, masterCount, lslaves: the locals of updateStatus;
\*   result: what New returned: "none", "failover", "error";
\*   panicked: a task has panicked, which ends the process;
\*   late: history, the servers whose state a refresh task wrote while
\*     updateStatus was running or after it.
newFailover ==
    [pc |-> "init", dbs |-> <<>>, state |-> <<>>,
     status |-> FailoverStatusZero, master |-> nil, slaves |-> <<>>,
     mu |-> FALSE, wg |-> 0, task |-> <<>>,
     i |-> 0, lmaster |-> nil, masterCount |-> 0, lslaves |-> <<>>,
     result |-> "none", panicked |-> FALSE, late |-> {}]

InitV3 ==
    /\ phase = "v3"
    /\ dbs = <<>>
    /\ err = noError
    /\ p = nil
    /\ active = noSelection
    /\ state = [d \in {} |-> noStatus]
    /\ lastMaster = nil
    /\ ctxDone = FALSE
    /\ runPc = "none"
    /\ loopPc = [d \in Range(AllDBs) |-> "none"]
    /\ pending = [d \in Range(AllDBs) |-> noStatus]
    /\ probes = 0
    /\ everMaster = {}
    /\ seenMaster = nil
    /\ hadMultiple = FALSE
    /\ ret = noCall
    /\ merged = noMerge
    /\ mu = noLock
    /\ fleet = anyFleet
    /\ fo = newFailover

\* v3.New called with an empty list.
v3NewEmpty ==
    /\ phase = "v3"
    /\ fo.pc = "init"
    /\ fo' = [fo EXCEPT !.pc = "returned", !.result = "error"]
    /\ UNCHANGED dbsVars

\* v3.New called with a non-empty list: the Failover is made, every
\* failoverDB with the zero state, and updateFailover takes f.mu.
v3New ==
    /\ phase = "v3"
    /\ fo.pc = "init"
    /\ \E list \in DBLists \ {<<>>} :
         fo' = [fo EXCEPT !.pc = "refreshDBs", !.dbs = list,
                          !.state = [d \in Range(list) |-> dbStateUnavailable],
                          !.task = [d \in Range(list) |-> "none"],
                          !.mu = TRUE]
    /\ UNCHANGED dbsVars

\* refreshDBs: the loop starts one task per database with go; the
\* WaitGroup counter is left as it is (there is no wg.Add).
v3refreshDBs ==
    /\ phase = "v3"
    /\ ~fo.panicked
    /\ fo.pc = "refreshDBs"
    /\ fo' = [fo EXCEPT !.pc = "wait",
                        !.task = [d \in Range(fo.dbs) |-> "refresh"]]
    /\ UNCHANGED dbsVars

\* refreshDBs: wg.Wait() returns when the counter is 0, and updateStatus
\* starts with its locals at their zero values.
v3wgWait ==
    /\ phase = "v3"
    /\ ~fo.panicked
    /\ fo.pc = "wait"
    /\ fo.wg = 0
    /\ fo' = [fo EXCEPT !.pc = "updateStatus", !.i = 1, !.lmaster = nil,
                        !.masterCount = 0, !.lslaves = <<>>]
    /\ UNCHANGED dbsVars

\* updateStatus: one iteration of the loop over f.dbs, which reads the
\* state of one database.
v3updateStatusLoop ==
    /\ phase = "v3"
    /\ ~fo.panicked
    /\ fo.pc = "updateStatus"
    /\ fo.i <= Len(fo.dbs)
    /\ LET db == fo.dbs[fo.i] IN
       fo' = IF fo.state[db] = dbStateMaster
             THEN [fo EXCEPT !.i = fo.i + 1, !.lmaster = db,
                             !.masterCount = fo.masterCount + 1]
             ELSE IF fo.state[db] = dbStateSlave
             THEN [fo EXCEPT !.i = fo.i + 1, !.lslaves = Append(fo.lslaves, db)]
             ELSE [fo EXCEPT !.i = fo.i + 1]
    /\ UNCHANGED dbsVars

\* updateStatus after its loop: the status is set and the function returns,
\* or master and slaves are set.
v3updateStatus ==
    /\ phase = "v3"
    /\ ~fo.panicked
    /\ fo.pc = "updateStatus"
    /\ fo.i > Len(fo.dbs)
    /\ fo' = IF fo.masterCount > 1
             THEN [fo EXCEPT !.pc = "notify",
                             !.status = FailoverStatusConflictingMasters]
             ELSE IF fo.masterCount = 0
             THEN [fo EXCEPT !.pc = "notify",
                             !.status = FailoverStatusMissingMaster]
             ELSE IF Len(fo.lslaves) = 0 /\ Len(fo.dbs) > 1
             THEN [fo EXCEPT !.pc = "notify",
                             !.status = FailoverStatusUnresponsiveSlaves]
             ELSE [fo EXCEPT !.pc = "notify", !.master = fo.lmaster,
                             !.slaves = fo.lslaves]
    /\ UNCHANGED dbsVars

\* updateFailover: statusUpdateFn (by default a function that does
\* nothing) is called and f.mu is released.
v3Unlock ==
    /\ phase = "v3"
    /\ ~fo.panicked
    /\ fo.pc = "notify"
    /\ fo' = [fo EXCEPT !.pc = "check", !.mu = FALSE]
    /\ UNCHANGED dbsVars

\* New: an error if the status is not healthy, the Failover if it is.
v3NewReturn ==
    /\ phase = "v3"
    /\ ~fo.panicked
    /\ fo.pc = "check"
    /\ fo' = [fo EXCEPT !.pc = "returned",
                        !.result = IF fo.status # FailoverStatusHealthy
                                   THEN "error" ELSE "failover"]
    /\ UNCHANGED dbsVars

\* failoverDB.refresh in its task: the query is answered or fails, and the
\* state of the database is written.
v3refresh(db) ==
    /\ phase = "v3"
    /\ ~fo.panicked
    /\ db \in DOMAIN fo.task
    /\ fo.task[db] = "refresh"
    /\ \E st \in dbStates :
         fo' = [fo EXCEPT !.state[db] = st, !.task[db] = "done",
                          !.late = IF fo.pc \in {"refreshDBs", "wait"}
                                   THEN fo.late ELSE fo.late \cup {db}]
    /\ UNCHANGED dbsVars

\* The task after refresh: wg.Done(), which panics when the counter goes
\* below 0; a panic in a task ends the process.
v3wgDone(db) ==
    /\ phase = "v3"
    /\ ~fo.panicked
    /\ db \in DOMAIN fo.task
    /\ fo.task[db] = "done"
    /\ fo' = [fo EXCEPT !.wg = fo.wg - 1, !.task[db] = "exited",
                        !.panicked = (fo.wg - 1 < 0)]
    /\ UNCHANGED dbsVars

NextV3 ==
    \/ v3NewEmpty
    \/ v3New
    \/ v3refreshDBs
    \/ v3wgWait
    \/ v3updateStatusLoop
    \/ v3updateStatus
    \/ v3Unlock
    \/ v3NewReturn
    \/ \E db \in Range(AllDBs) : v3refresh(db)
    \/ \E db \in Range(AllDBs) : v3wgDone(db)

SpecV3 == InitV3 /\ [][NextV3]_vars

\* ---------------------------------------------------------------- claims
ErrMultipleMastersErr == sentinel(ErrMultipleMasters)
ErrNoDatabasesErr == sentinel(ErrNoDatabases)

\* The servers of st with role r whose latency no other such server undercuts.
lowestOf(st, S) == {d \in S : \A e \in S : st[d].latency <= st[e].latency}

\* C1: once New has returned a controller, in every state Master() and
\* Slave() give a handle that is not nil, and the published selection has
\* lastMaster set.
C1_AccessorsNeverNil ==
    phase = "running" =>
        /\ active.lastMaster # nil
        /\ Master(active) # nil
        /\ Slave(active) # nil
        /\ (ret.op \in {"Master", "Slave"} => ret.db # nil)

\* C1 witness: after an update and Stop, Slave() has answered from a
\* selection with neither master nor slave.
C1_Witness ==
    /\ phase = "running"
    /\ ctxDone
    /\ probes > Len(dbs)
    /\ active.master = nil
    /\ active.slave = nil
    /\ ret.op = "Slave"
    /\ ret.db = active.lastMaster

\* C2: Master() gives the poisoned handle if the published selection has
\* multipleMasters, else the selection's master if set, else its lastMaster.
C2_MasterResult ==
    ret.op = "Master" =>
        ret.db = IF active.multipleMasters THEN errConn
                 ELSE IF active.master # nil THEN active.master
                 ELSE active.lastMaster

\* C2 witness: Master() has answered while the selection names a master
\* and has multipleMasters set.
C2_Witness ==
    /\ ret.op = "Master"
    /\ active.multipleMasters
    /\ active.master # nil
    /\ ret.db = errConn

\* C3: Slave() gives the published selection's slave if set and else its
\* lastMaster, and never the poisoned handle.
C3_SlaveResult ==
    ret.op = "Slave" =>
        /\ ret.db = IF active.slave # nil THEN active.slave ELSE active.lastMaster
        /\ ret.db # errConn

\* C3 witness: Slave() has answered with a server while multipleMasters is set.
C3_Witness ==
    /\ ret.op = "Slave"
    /\ active.multipleMasters
    /\ ret.db \in Range(dbs)

\* C4: a query through the handle Master() gives while multipleMasters is
\* set fails with ErrMultipleMasters, and no query through the poisoned
\* handle succeeds.
C4_PoisonedQueryFails ==
    ret.op = "Exec" =>
        /\ active.multipleMasters => ret.err = ErrMultipleMastersErr
        /\ ret.db = errConn => ret.err = ErrMultipleMastersErr

\* C4 witness: a query has been run through the poisoned handle.
C4_Witness ==
    /\ ret.op = "Exec"
    /\ ret.db = errConn
    /\ active.multipleMasters
    /\ ret.err = ErrMultipleMastersErr

\* C5: Master() gives the poisoned handle exactly when two or more Master
\* verdicts are recorded, and when exactly one is recorded it gives that
\* server.
C5_PoisonedIffTwoMasters ==
    phase = "running" =>
        /\ (Master(active) = errConn) <=> (Cardinality(mastersOf(state)) >= 2)
        /\ \A m \in DOMAIN state : mastersOf(state) = {m} => Master(active) = m
        /\ ret.op = "Master" =>
             /\ (ret.db = errConn) <=> (Cardinality(mastersOf(state)) >= 2)
             /\ \A m \in DOMAIN state : mastersOf(state) = {m} => ret.db = m

\* C5 witness: after a selection with multipleMasters, an update has left
\* one Master verdict and Master() has answered with that server.
C5_Witness ==
    /\ phase = "running"
    /\ hadMultiple
    /\ Cardinality(mastersOf(state)) = 1
    /\ ret.op = "Master"
    /\ ret.db \in mastersOf(state)

C7_LastSeenMaster ==
    (phase = "running" /\ mastersOf(state) = {} /\ seenMaster # nil) =>
        /\ Master(active) = seenMaster
        /\ IF slavesOf(state) # {}
           THEN Slave(active) \in lowestOf(state, slavesOf(state))
           ELSE Slave(active) = seenMaster

C9_EmptyList ==
    (phase # "init" /\ dbs = <<>>) =>
        /\ phase = "failed"
        /\ err = ErrNoDatabasesErr
        /\ p = nil
        /\ probes = 0
        /\ runPc = "none"
        /\ \A d \in DOMAIN loopPc : loopPc[d] = "none"
        /\ ~ctxDone
        /\ active = noSelection

\* C9 witness: New has returned ErrNoDatabases.
C9_Witness ==
    /\ phase = "failed"
    /\ err = ErrNoDatabasesErr
    /\ dbs = <<>>

\* C10: New fails with ErrMultipleMasters, returning no controller and
\* starting neither consumer nor polling loop, exactly if the initial round
\* gives more than one Master verdict; with at most one it returns the
\* controller. (The status map is the one of the initial round in a failed
\* state and before the consumer starts.)
C10_InitialMultipleMasters ==
    /\ (phase = "failed" /\ dbs # <<>>) =>
          /\ Cardinality(mastersOf(state)) > 1
          /\ err = ErrMultipleMastersErr
          /\ p = nil
          /\ runPc = "none"
          /\ \A d \in DOMAIN loopPc : loopPc[d] = "none"
    /\ (phase = "running" /\ runPc = "start") =>
          /\ Cardinality(mastersOf(state)) <= 1
          /\ err = noError
          /\ p # nil
    /\ (dbs # <<>> /\ phase \in {"failed", "running"} /\ runPc \in {"none", "start"}) =>
          ((Cardinality(mastersOf(state)) > 1) <=> (phase = "failed"))

\* C10 witness: New has returned ErrMultipleMasters for two masters.
C10_Witness ==
    /\ phase = "failed"
    /\ err = ErrMultipleMastersErr
    /\ mastersOf(state) = {"A", "B"}

\* C11: when New returns the controller, every server of the list has been
\* probed once, the published selection is makeSelection of these statuses
\* with dbs[0] for lastMaster, and no polling loop has started.
C11_InitialRoundBeforeReturn ==
    (phase = "running" /\ runPc = "start") =>
        /\ DOMAIN state = Range(dbs)
        /\ probes = Len(dbs)
        /\ \A d \in Range(dbs) : state[d] \in checkDBStatus
        /\ \E o \in Orders(Range(dbs)) :
             active = makeSelection(state, dbs[1], o)
        /\ \A d \in DOMAIN loopPc : loopPc[d] = "none" /\ pending[d] = noStatus

\* C11 witness: right after New returned for two servers, before the
\* consumer starts, Slave() has answered with the second server.
C11_Witness ==
    /\ phase = "running"
    /\ runPc = "start"
    /\ dbs = <<"A", "B">>
    /\ state["B"].role = roleSlave
    /\ ret.op = "Slave"
    /\ ret.db = "B"

\* C12 as claimed: once Stop has been called the published selection never
\* changes.
C12_FrozenAfterStop == [][ctxDone => active' = active]_vars

\* C13: a call of Stop after the first changes nothing of the controller,
\* and Master() and Slave() can be called after any number of Stop calls.
C13_StopIdempotent ==
    /\ [][(Stop /\ ctxDone) =>
            UNCHANGED <<phase, dbs, err, p, active, state, lastMaster, ctxDone,
                        runPc, loopPc, pending, probes>>]_vars
    /\ [](ctxDone => (ENABLED MasterCall /\ ENABLED SlaveCall
                      /\ Master(active) # nil /\ Slave(active) # nil))

\* C13 witness: Stop has been called a second time.
C13_Witness ==
    /\ ctxDone
    /\ ret = stopCall(TRUE)

\* C14 as claimed: once Stop has been called no polling loop begins a probe.
C14_NoProbeAfterStop == [][ctxDone => probes' = probes]_vars

\* C15: after Stop the consumer and every polling loop terminate and stay
\* terminated, whether a loop was waiting for its tick or blocked handing
\* over its update (with the consumer still there or already gone).
C15_AllTerminate ==
    <>[](ctxDone => (runPc = "done" /\ \A d \in Range(dbs) : loopPc[d] = "done"))

\* C15 witness: polling went on after the initial round, Stop was called,
\* and the consumer and both loops have terminated.
C15_Witness ==
    /\ ctxDone
    /\ dbs = <<"A", "B">>
    /\ probes > Len(dbs)
    /\ runPc = "done"
    /\ \A d \in Range(dbs) : loopPc[d] = "done"

\* The rows of the decision table of the classifier, in their order, each
\* a condition on the reports and a verdict.
decisionTable(ss, rs) ==
    << <<~rs.online, roleOffline>>,
       <<rs.readOnly /\ ~ss.online, roleSlave>>,
       <<~rs.readOnly /\ ~ss.online, roleMaster>>,
       <<rs.readOnly /\ ss.configured /\ ss.runningIO /\ ss.runningSQL, roleSlave>>,
       <<rs.readOnly /\ ss.configured /\ ss.runningIO /\ ~ss.runningSQL, roleOffline>>,
       <<rs.readOnly /\ ss.configured /\ ~ss.runningIO, roleOffline>>,
       <<rs.readOnly /\ ~ss.configured, roleOffline>>,
       <<~rs.readOnly /\ ss.configured /\ ss.runningIO /\ ss.runningSQL, roleSlave>>,
       <<~rs.readOnly /\ ss.configured /\ ss.runningIO /\ ~ss.runningSQL, roleOffline>>,
       <<~rs.readOnly /\ ss.configured /\ ~ss.runningIO, roleMaster>>,
       <<~rs.readOnly /\ ~ss.configured, roleMaster>> >>

noRow == 0 - 1

\* The verdict of the first row whose condition holds, noRow if none does.
firstMatch(rows) ==
    LET hit == {i \in 1..Len(rows) : rows[i][1]} IN
    IF hit = {} THEN noRow
    ELSE rows[CHOOSE i \in hit : \A j \in hit : i <= j][2]

\* The galera report that takes a server offline.
wsrepFailed(ws) == ws.online /\ ~ws.ready

\* The table verdict after the check of the replication delay.
lagVerdict(ss, rs, limit) ==
    IF tableRole(ss, rs) = roleSlave /\ ss.delay > limit
    THEN roleOffline ELSE tableRole(ss, rs)

C17_LagDowngrade ==
    phase = "merged" =>
        LET t == tableRole(merged.ss, merged.rs)
            late == merged.ss.delay > merged.maxReplicationDelay
        IN  /\ (t = roleSlave /\ late) =>
                 (merged.out.role = roleOffline /\ active.slave # "A")
            /\ (t = roleSlave /\ ~late /\ ~wsrepFailed(merged.ws)) =>
                 (merged.out.role = roleSlave /\ active.slave = "A")
            /\ (t # roleSlave /\ ~wsrepFailed(merged.ws)) => merged.out.role = t
            /\ (t = roleOffline) => merged.out.role = roleOffline

\* C17 witness: a read-only replica with both threads running and a delay
\* one above the limit is Offline and is not the slave of the selection.
C17_Witness ==
    /\ phase = "merged"
    /\ tableRole(merged.ss, merged.rs) = roleSlave
    /\ merged.ss.online /\ merged.ss.runningSQL
    /\ merged.maxReplicationDelay = defaultMaxReplicationDelay
    /\ merged.ss.delay = defaultMaxReplicationDelay + 1
    /\ ~wsrepFailed(merged.ws)
    /\ merged.out.role = roleOffline
    /\ active.slave = nil

\* C18: a galera report with wsrep on and the node not ready gives Offline
\* whatever the other two reports say; any other galera report leaves the
\* verdict of the other two reports as it is.
C18_WsrepForcesOffline ==
    phase = "merged" =>
        /\ wsrepFailed(merged.ws) => merged.out.role = roleOffline
        /\ ~wsrepFailed(merged.ws) =>
             merged.out.role =
                 lagVerdict(merged.ss, merged.rs, merged.maxReplicationDelay)

\* C18 witness: a reachable writable server, which the table classifies
\* Master, is Offline because its galera node is not ready.
C18_Witness ==
    /\ phase = "merged"
    /\ merged.rs.online /\ ~merged.rs.readOnly /\ ~merged.ss.online
    /\ tableRole(merged.ss, merged.rs) = roleMaster
    /\ merged.ws.online /\ ~merged.ws.ready
    /\ merged.out.role = roleOffline

C20_LowestLatencyMaster ==
    phase = "selected" =>
        /\ (active.master = nil) <=> (mastersOf(state) = {})
        /\ active.master # nil =>
             active.master \in lowestOf(state, mastersOf(state))

\* C21 as claimed: with a Slave verdict in the map the slave of the
\* selection is a server with role Slave whose latency no other such server
\* undercuts, and with none it is the master of the selection.
C21_LowestLatencySlave ==
    phase = "selected" =>
        /\ slavesOf(state) # {} =>
             active.slave \in lowestOf(state, slavesOf(state))
        /\ slavesOf(state) = {} => active.slave = active.master

\* C22 as claimed: the lastMaster of a selection is its master if it has
\* one and else the lastMaster passed in, and the published lastMaster
\* changes only in a step whose selection has a master.
C22_LastMasterCarried ==
    /\ [](phase = "selected" =>
            active.lastMaster =
                IF active.master # nil THEN active.master ELSE lastMaster)
    /\ [][(phase = "running" /\ active'.lastMaster # active.lastMaster)
            => active'.master # nil]_vars

\* The status map without its offline servers.
onlineOf(st) == [d \in {e \in DOMAIN st : st[e].role # roleOffline} |-> st[d]]

\* C23: a server with role Offline is neither master nor slave of the
\* selection and does not count for multipleMasters: the selection is the
\* one makeSelection gives for the map without its offline servers; with
\* every server offline master and slave are nil and lastMaster is the one
\* passed in.
C23_OfflineExcluded ==
    phase = "selected" =>
        /\ active.master # nil => state[active.master].role # roleOffline
        /\ active.slave # nil => state[active.slave].role # roleOffline
        /\ \E o \in Orders(DOMAIN onlineOf(state)) :
             active = makeSelection(onlineOf(state), lastMaster, o)
        /\ (\A d \in DOMAIN state : state[d].role = roleOffline) =>
             active = [master |-> nil, slave |-> nil, lastMaster |-> lastMaster,
                       multipleMasters |-> FALSE]

\* C23 witness: three offline servers of different latencies, and the
\* selection has no master, no slave, and the lastMaster passed in.
C23_Witness ==
    /\ phase = "selected"
    /\ dbs = <<"A", "B", "C">>
    /\ \A d \in DOMAIN state : state[d].role = roleOffline
    /\ state["A"].latency = 1
    /\ state["B"].latency = 0
    /\ lastMaster = "B"
    /\ active.master = nil
    /\ active.slave = nil
    /\ active.lastMaster = "B"

\* C24 as claimed: the latency of the status mergeStatus returns is the
\* maximum of the latencies of the three reports.
C24_MaxOfThreeLatencies ==
    phase = "merged" =>
        /\ merged.out.latency >= merged.rs.latency
        /\ merged.out.latency >= merged.ss.latency
        /\ merged.out.latency >= merged.ws.latency
        /\ merged.out.latency \in
             {merged.rs.latency, merged.ss.latency, merged.ws.latency}

\* The galera report checkDBStatus hands to mergeStatus.
seenWsrep(m) == IF m.cfg.SkipGaleraCheck THEN zeroWsrepStatus ELSE m.ws

\* The verdict of the decision table and of the two checks after it for a
\* health report ss.
verdictFor(ss, m) ==
    IF wsrepFailed(seenWsrep(m)) THEN roleOffline
    ELSE IF firstMatch(decisionTable(ss, m.rs)) = roleSlave
            /\ ss.delay > m.cfg.MaxReplicationDelay
         THEN roleOffline
         ELSE firstMatch(decisionTable(ss, m.rs))

\* C25 as claimed: with SkipSlaveCheck the verdict is the one of a health
\* report that is reachable and not configured as replica, and with
\* SkipGaleraCheck the galera report forces nothing.
C25_Original ==
    phase = "checked" =>
        /\ merged.cfg.SkipSlaveCheck =>
             merged.out.role =
                 verdictFor([zeroSlaveStatus EXCEPT !.online = TRUE], merged)
        /\ merged.cfg.SkipGaleraCheck =>
             merged.out.role =
                 lagVerdict(IF merged.cfg.SkipSlaveCheck
                            THEN zeroSlaveStatus ELSE merged.ss,
                            merged.rs, merged.cfg.MaxReplicationDelay)

\* C25 as amended: with SkipSlaveCheck the verdict does not depend on what
\* the health check would report and is the one of an unreachable health
\* report: Offline if the role check fails, Slave if the server is
\* read-only, Master if it is writable (Offline in each case if a galera
\* check that is run says not ready); with SkipGaleraCheck the galera report
\* forces nothing.
C25_SkippedChecks ==
    phase = "checked" =>
        /\ merged.cfg.SkipSlaveCheck =>
             /\ merged.out.role = verdictFor(zeroSlaveStatus, merged)
             /\ ~wsrepFailed(seenWsrep(merged)) =>
                  merged.out.role =
                      IF ~merged.rs.online THEN roleOffline
                      ELSE IF merged.rs.readOnly THEN roleSlave ELSE roleMaster
        /\ ~merged.cfg.SkipSlaveCheck =>
             merged.out.role = verdictFor(merged.ss, merged)
        /\ merged.cfg.SkipGaleraCheck =>
             merged.out.role =
                 lagVerdict(IF merged.cfg.SkipSlaveCheck
                            THEN zeroSlaveStatus ELSE merged.ss,
                            merged.rs, merged.cfg.MaxReplicationDelay)

\* C25 witness: the health check is skipped for a read-only server whose
\* replication is configured but stopped, the galera check is skipped for a
\* node that is not ready, and the verdict is Slave.
C25_Witness ==
    /\ phase = "checked"
    /\ merged.cfg.SkipSlaveCheck
    /\ merged.cfg.SkipGaleraCheck
    /\ merged.rs.online /\ merged.rs.readOnly
    /\ merged.ss.online /\ merged.ss.configured /\ ~merged.ss.runningIO
    /\ merged.ws.online /\ ~merged.ws.ready
    /\ merged.out.role = roleSlave

\* C26 as claimed: when the consumer handles the update of a server, the
\* recorded status of every other server stays as it was, and the selection
\* it publishes is makeSelection of the recorded statuses with the lastMaster
\* of the selection published before.
C26_UpdateFrame ==
    [][\A db \in Range(AllDBs) :
         runUpdate(db) =>
           /\ DOMAIN state' = DOMAIN state
           /\ \A d \in DOMAIN state \ {db} : state'[d] = state[d]
           /\ state'[db] = pending[db]
           /\ \E o \in Orders(DOMAIN state) :
                active' = makeSelection(state', active.lastMaster, o)]_vars

\* The selections makeSelection can give for the recorded statuses.
selectionsOf(st, list) ==
    {makeSelection(st, lm, o) : lm \in Range(list), o \in Orders(DOMAIN st)}

\* C27: the copy an accessor has taken is the published selection, which
\* is whole: the result of one run of makeSelection, at construction or by
\* the consumer; and after construction the published selection is written
\* only by the consumer, holding the write lock with no reader inside.
C27_WholeSelection ==
    /\ []((phase = "running" /\ mu.wpc = "select") =>
             active \in selectionsOf(state, dbs))
    /\ []((phase = "running" /\ mu.wpc = "lock") =>
             (active = mu.pub /\ mu.wnew \in selectionsOf(state, dbs)))
    /\ []((mu.rpc = "copy" /\ mu.rn = Len(Fields)) =>
             (mu.rcopy = active /\ mu.wpc \in {"select", "lock"}))
    /\ [](mu.rpc = "ret" => mu.rcopy.lastMaster # nil)
    /\ [][(phase = "running" /\ active' # active) =>
             (mu.writer /\ mu.wpc = "write" /\ mu.readers = 0
              /\ mu'.wn = mu.wn + 1)]_vars

\* C27 witness: a caller holds the read lock with its copy taken while the
\* consumer waits for the write lock with another selection to publish.
C27_Witness ==
    /\ phase = "running"
    /\ mu.rpc = "copy"
    /\ mu.rn = Len(Fields)
    /\ mu.wpc = "lock"
    /\ mu.wnew # active
    /\ mu.wnew.multipleMasters
    /\ mu.rcopy = active

\* C28: the consumer holds the write lock only while it assigns the
\* selection, never in its select, and can always go on while it holds it;
\* a caller that has entered Master() or Slave() returns, with nothing
\* asked of the probes, the polling loops and the arrival of updates.
C28_AccessorsReturn ==
    /\ [](mu.writer => (mu.wpc = "write" /\ ENABLED (runWrite \/ runUnlock)))
    /\ [](mu.rpc \in {"copy", "ret"} => ENABLED (callCopy \/ callRUnlock \/ callReturn))
    /\ (mu.rpc # "idle") ~> (mu.rpc = "idle")

\* C28 witness: Master() has returned the second server while the consumer,
\* with a selection to publish, has not taken the write lock yet.
C28_Witness ==
    /\ phase = "running"
    /\ dbs = <<"A", "B">>
    /\ ret.op = "Master"
    /\ ret.db = "B"
    /\ mu.wpc = "lock"
    /\ mu.wnew.master = "A"

\* Every value of the struct selection for the servers of the model.
AllSelections ==
    [master : Range(AllDBs) \cup {nil}, slave : Range(AllDBs) \cup {nil},
     lastMaster : Range(AllDBs) \cup {nil}, multipleMasters : BOOLEAN]

\* C29 as claimed: with the fleet constant the published selection comes to
\* be a result of makeSelection on the fleet and keeps that one value from
\* then on.
C29_Original ==
    \E sel \in AllSelections :
        <>[](active = sel /\ sel \in selectionsOf(fleet, dbs))

\* C29 as amended: with the fleet constant, from some point on the
\* published selection is always a result of makeSelection on the statuses
\* of the fleet (for some order of the iteration), a fleet with two masters
\* is reported with multipleMasters and Master() gives the poisoned handle,
\* and a fleet with one master has Master() give that server.
C29_EventuallyConsistent ==
    <>[](/\ state = fleet
         /\ active \in selectionsOf(fleet, dbs)
         /\ Cardinality(mastersOf(fleet)) >= 2 =>
              (active.multipleMasters /\ Master(active) = errConn)
         /\ \A m \in Range(dbs) : mastersOf(fleet) = {m} =>
              (~active.multipleMasters /\ Master(active) = m))

\* C29 witness: the fleet has two masters, both loops have delivered what
\* the fleet says, and the consumer has published multipleMasters.
C29_Witness ==
    /\ fleet # anyFleet
    /\ mastersOf(fleet) = {"A", "B"}
    /\ state = fleet
    /\ hadMultiple
    /\ active.multipleMasters
    /\ Master(active) = errConn
    /\ \A d \in Range(dbs) : loopPc[d] = "wait"

\* C30 as claimed: in a fleet that never has two masters at a time no
\* published selection has multipleMasters and Master() never gives the
\* poisoned handle.
C30_NoFalseAlarm ==
    (phase = "running" /\ fleet # anyFleet) =>
        (~active.multipleMasters /\ Master(active) # errConn)

\* C31: each checkLoop has at most one probe and at most one undelivered
\* update at a time. A probe is made by one loop that is waiting for its
\* tick, never by a loop whose status is still to be received; a status
\* to be received stays as it is until the consumer records exactly it
\* (the loop then waits for the next tick) or the loop leaves on
\* ctx.Done(); and the status map of the consumer changes for a server
\* only by recording the status that server's loop is sending, so the
\* statuses of one server are applied in the order of its probes.
C31_OneUpdateInFlight ==
    [][phase = "running" /\ runPc # "start" =>
        /\ probes' # probes =>
             \E db \in DOMAIN state :
                /\ loopPc[db] = "wait"
                /\ loopPc'[db] = "send"
                /\ probes' = probes + 1
                /\ \A d \in DOMAIN state \ {db} :
                      loopPc'[d] = loopPc[d] /\ pending'[d] = pending[d]
        /\ \A db \in DOMAIN state :
             /\ loopPc[db] = "send" =>
                  \/ loopPc'[db] = "send" /\ pending'[db] = pending[db]
                                          /\ state'[db] = state[db]
                  \/ loopPc'[db] = "wait" /\ state'[db] = pending[db]
                  \/ loopPc'[db] = "done" /\ state'[db] = state[db]
             /\ state'[db] # state[db] =>
                  loopPc[db] = "send" /\ state'[db] = pending[db]
             /\ loopPc[db] = "wait" /\ loopPc'[db] = "send" =>
                  state'[db] = state[db]
    ]_vars

\* The loop of the only server A has had its earlier statuses received
\* and has probed again: the status of its latest probe, Offline and other
\* than the recorded one, is waiting to be received.
C31_Witness ==
    /\ phase = "running"
    /\ dbs = <<"A">>
    /\ probes = MaxProbes
    /\ loopPc["A"] = "send"
    /\ pending["A"] # state["A"]
    /\ pending["A"].role = roleOffline

\* C32: every published selection is well formed with respect to the
\* recorded statuses it was made from: a master set is also lastMaster;
\* multipleMasters implies a master set; no slave implies no master; the
\* master, when set, is recorded Master, and the slave, when set, is
\* recorded Slave or Master.
C32_SelectionWellFormed ==
    phase = "running" =>
        /\ active.master # nil => active.lastMaster = active.master
        /\ active.multipleMasters => active.master # nil
        /\ active.slave = nil => active.master = nil
        /\ active.master # nil =>
             /\ active.master \in DOMAIN state
             /\ state[active.master].role = roleMaster
        /\ active.slave # nil =>
             /\ active.slave \in DOMAIN state
             /\ state[active.slave].role \in {roleSlave, roleMaster}

\* The consumer has published a selection with two masters recorded and no
\* slave: the master chosen is also the slave and lastMaster.
C32_Witness ==
    /\ phase = "running"
    /\ runPc = "select"
    /\ active.multipleMasters
    /\ active.master = "B"
    /\ active.slave = "B"
    /\ state["A"].role = roleMaster

C33_WitnessOffline ==
    /\ phase = "running"
    /\ ret.op = "Slave"
    /\ probes > Len(dbs)
    /\ \A d \in DOMAIN state : state[d].role = roleOffline

\* C34: for every input of mergeStatus, the verdict is Master only if the
\* read-only check was answered and says writable, Slave only if the delay
\* is not above maxReplicationDelay, and Offline whenever the read-only
\* check was not answered, whatever the other two reports say.
C34_VerdictBounds ==
    phase = "merged" =>
        /\ merged.out.role = roleMaster =>
             (merged.rs.online /\ ~merged.rs.readOnly)
        /\ merged.out.role = roleSlave =>
             merged.ss.delay <= merged.maxReplicationDelay
        /\ ~merged.rs.online => merged.out.role = roleOffline

\* The read-only check was not answered while the replication check
\* reports a perfect replica within the limit and the galera node is
\* ready: the verdict is Offline.
C34_Witness ==
    /\ phase = "merged"
    /\ ~merged.rs.online
    /\ merged.ss.online /\ merged.ss.configured
    /\ merged.ss.runningIO /\ merged.ss.runningSQL
    /\ merged.ss.delay <= merged.maxReplicationDelay
    /\ merged.ws.online /\ merged.ws.ready
    /\ merged.out.role = roleOffline

\* A read-only server whose replication check was not answered and whose
\* report carries a delay at the limit is Slave.
C34_WitnessSlave ==
    /\ phase = "merged"
    /\ merged.rs.online /\ merged.rs.readOnly
    /\ ~merged.ss.online
    /\ merged.maxReplicationDelay = defaultMaxReplicationDelay
    /\ merged.ss.delay = defaultMaxReplicationDelay
    /\ merged.out.role = roleSlave

\* No two servers of one role, Master or Slave, have the same latency.
noTies(st) ==
    \A a, b \in DOMAIN st :
        (a # b /\ st[a].role = st[b].role /\ st[a].role # roleOffline)
            => st[a].latency # st[b].latency

\* C35 as claimed: the result of makeSelection does not depend on the order
\* of the map iteration: every order gives the multipleMasters of the
\* selection made, and, when no two servers of one role have the same
\* latency, its master, slave and lastMaster too.
C35_OrderIndependent ==
    phase = "selected" =>
        \A order \in Orders(DOMAIN state) :
            LET other == makeSelection(state, lastMaster, order)
            IN  /\ other.multipleMasters = active.multipleMasters
                /\ noTies(state) => other = active

\* What updateStatus found in its loop: exactly one master, and at least
\* one slave or a fleet of a single server.
foundHealthy ==
    /\ fo.masterCount = 1
    /\ (Len(fo.lslaves) >= 1 \/ Len(fo.dbs) = 1)

\* C36 as claimed: in package v3 a refresh that finds exactly one master
\* and either a slave or a fleet of one server leaves the status healthy,
\* so New returns the Failover for such a fleet and an error only for a
\* fleet found otherwise.
C36_HealthyRefresh ==
    phase = "v3" =>
        /\ (fo.pc \in {"notify", "check", "returned"} /\ fo.dbs # <<>>
              /\ foundHealthy) => fo.status = FailoverStatusHealthy
        /\ (fo.pc = "returned" /\ fo.dbs # <<>> /\ foundHealthy) =>
              fo.result = "failover"
        /\ (fo.pc = "returned" /\ fo.dbs # <<>> /\ fo.result = "error") =>
              ~foundHealthy

\* C37 as claimed: in package v3 a refresh that ends in a status other
\* than healthy leaves the master and the slave list as they were, and
\* after New has returned a Failover its master is set.
C37_UnhealthyFrame ==
    /\ [][(phase = "v3" /\ fo.pc = "updateStatus" /\ fo'.pc = "notify"
             /\ fo'.status # FailoverStatusHealthy)
          => (fo'.master = fo.master /\ fo'.slaves = fo.slaves)]_vars
    /\ []((phase = "v3" /\ fo.result = "failover") => fo.master # nil)

\* C38 as claimed: in package v3 the status is computed only after every
\* refresh task of the round has finished: once refreshDBs has returned no
\* task is still running, and no task has written the state of a database
\* while updateStatus was running or after it.
C38_RefreshJoined ==
    (phase = "v3" /\ fo.pc \in {"updateStatus", "notify", "check", "returned"}
       /\ fo.dbs # <<>>) =>
        /\ \A d \in Range(fo.dbs) : fo.task[d] = "exited"
        /\ fo.late = {}

====
